---- MODULE Spec2Model ----
(***************************************************************************)
(* imgconv: the output format resolver (determine_output,                  *)
(* determine_output_from_clipboard and the extension tables) and the       *)
(* conversion driver (main) of src/main.rs.                                *)
(*                                                                         *)
(* Strings and paths are sequences of one-character strings, so that       *)
(* lower-casing, splitting a file name at its last dot and replacing an    *)
(* extension are computed as the Rust standard library computes them.      *)
(***************************************************************************)
EXTENDS Integers, Sequences, FiniteSets, TLC

\* ------------------------------------------------------------------------
\* Option<T>
\* ------------------------------------------------------------------------
None == [some |-> FALSE]
Some(x) == [some |-> TRUE, v |-> x]

\* ------------------------------------------------------------------------
\* Extension strings of the tables
\* ------------------------------------------------------------------------
s_png == <<"p", "n", "g">>
s_jpg == <<"j", "p", "g">>
s_jpeg == <<"j", "p", "e", "g">>
s_gif == <<"g", "i", "f">>
s_bmp == <<"b", "m", "p">>
s_ico == <<"i", "c", "o">>
s_tiff == <<"t", "i", "f", "f">>
s_tif == <<"t", "i", "f">>
s_webp == <<"w", "e", "b", "p">>
s_avif == <<"a", "v", "i", "f">>
s_pnm == <<"p", "n", "m">>
s_pbm == <<"p", "b", "m">>
s_pgm == <<"p", "g", "m">>
s_ppm == <<"p", "p", "m">>
s_tga == <<"t", "g", "a">>
s_dds == <<"d", "d", "s">>
s_hdr == <<"h", "d", "r">>
s_ff == <<"f", "f">>

\* ------------------------------------------------------------------------
\* str::to_lowercase, on the ASCII letters
\* ------------------------------------------------------------------------
LowerOf ==
  [A |-> "a", B |-> "b", C |-> "c", D |-> "d", E |-> "e", F |-> "f", G |-> "g",
   H |-> "h", I |-> "i", J |-> "j", K |-> "k", L |-> "l", M |-> "m", N |-> "n",
   O |-> "o", P |-> "p", Q |-> "q", R |-> "r", S |-> "s", T |-> "t", U |-> "u",
   V |-> "v", W |-> "w", X |-> "x", Y |-> "y", Z |-> "z"]

to_lowercase(s) ==
  [i \in 1..Len(s) |-> IF s[i] \in DOMAIN LowerOf THEN LowerOf[s[i]] ELSE s[i]]

\* ------------------------------------------------------------------------
\* std::path::Path: file_name, extension, file_stem, set_extension, parent
\* (relative paths whose components are separated by "/")
\* ------------------------------------------------------------------------
\* the positions of character c in s
Positions(s, c) == {i \in 1..Len(s) : s[i] = c}

Max(S) == CHOOSE m \in S : \A n \in S : n <= m

\* the position where the last component of the path starts
last_component_start(path) ==
  IF Positions(path, "/") = {} THEN 1 ELSE Max(Positions(path, "/")) + 1

\* Path::file_name: the last component, unless it is "..", "." or missing
file_name(path) ==
  LET name == SubSeq(path, last_component_start(path), Len(path))
  IN IF name = <<>> \/ name = <<".">> \/ name = <<".", ".">>
       THEN None ELSE Some(name)

\* rsplit_file_at_dot: (before, after) around the last dot of a file name;
\* a name with no dot, or whose only dot is its first character, has no "after"
rsplit_file_at_dot(name) ==
  LET dots == Positions(name, ".")
  IN IF name = <<".", ".">> THEN [before |-> Some(name), after |-> None]
     ELSE IF dots = {} THEN [before |-> None, after |-> Some(name)]
     ELSE IF Max(dots) = 1 THEN [before |-> Some(name), after |-> None]
     ELSE [before |-> Some(SubSeq(name, 1, Max(dots) - 1)),
           after |-> Some(SubSeq(name, Max(dots) + 1, Len(name)))]

\* Path::extension: before.and(after)
extension_of(path) ==
  IF ~file_name(path).some THEN None
  ELSE LET r == rsplit_file_at_dot(file_name(path).v)
       IN IF r.before.some THEN r.after ELSE None

\* Path::file_stem: before.or(after)
file_stem(path) ==
  IF ~file_name(path).some THEN None
  ELSE LET r == rsplit_file_at_dot(file_name(path).v)
       IN IF r.before.some THEN r.before ELSE r.after

\* PathBuf::set_extension: does nothing when the path has no file name,
\* otherwise truncates after the file stem and appends "." and the extension
set_extension(path, ext) ==
  IF ~file_stem(path).some THEN path
  ELSE LET keep == SubSeq(path, 1,
                          last_component_start(path) + Len(file_stem(path).v) - 1)
       IN IF ext = <<>> THEN keep ELSE keep \o <<".">> \o ext

\* Path::parent: the path without its last component
parent(path) ==
  IF path = <<>> THEN None
  ELSE IF Positions(path, "/") = {} THEN Some(<<>>)
  ELSE Some(SubSeq(path, 1, Max(Positions(path, "/")) - 1))

\* ------------------------------------------------------------------------
\* enum Format (the values of --format) and image::ImageFormat
\* ------------------------------------------------------------------------
Format ==
  {"Png", "Jpeg", "Jpg", "Gif", "Bmp", "Ico", "Tiff", "Tif", "Webp", "Avif",
   "Pnm", "Tga", "Dds", "Hdr", "Farbfeld"}

\* the codecs the program's tables name
NamedImageFormat ==
  {"PNG", "JPEG", "GIF", "BMP", "ICO", "TIFF", "WEBP", "AVIF", "PNM", "TGA",
   "DDS", "HDR", "FARBFELD"}

\* image::ImageFormat also has codecs the program's tables do not name
ImageFormat == NamedImageFormat \cup {"OPENEXR", "QOI"}

to_image_format_m(f) ==
  CASE f = "Png" -> "PNG"
    [] f \in {"Jpeg", "Jpg"} -> "JPEG"
    [] f = "Gif" -> "GIF"
    [] f = "Bmp" -> "BMP"
    [] f = "Ico" -> "ICO"
    [] f \in {"Tiff", "Tif"} -> "TIFF"
    [] f = "Webp" -> "WEBP"
    [] f = "Avif" -> "AVIF"
    [] f = "Pnm" -> "PNM"
    [] f = "Tga" -> "TGA"
    [] f = "Dds" -> "DDS"
    [] f = "Hdr" -> "HDR"
    [] f = "Farbfeld" -> "PNG"

\* Format::to_image_format
to_image_format(f) ==
  CASE f = "Png" -> "PNG"
    [] f \in {"Jpeg", "Jpg"} -> "JPEG"
    [] f = "Gif" -> "GIF"
    [] f = "Bmp" -> "BMP"
    [] f = "Ico" -> "ICO"
    [] f \in {"Tiff", "Tif"} -> "TIFF"
    [] f = "Webp" -> "WEBP"
    [] f = "Avif" -> "AVIF"
    [] f = "Pnm" -> "PNM"
    [] f = "Tga" -> "TGA"
    [] f = "Dds" -> "DDS"
    [] f = "Hdr" -> "HDR"
    [] f = "Farbfeld" -> "FARBFELD"

\* format_to_extension: the canonical extension of a Format
format_to_extension(f) ==
  CASE f = "Png" -> s_png
    [] f \in {"Jpeg", "Jpg"} -> s_jpg
    [] f = "Gif" -> s_gif
    [] f = "Bmp" -> s_bmp
    [] f = "Ico" -> s_ico
    [] f \in {"Tiff", "Tif"} -> s_tiff
    [] f = "Webp" -> s_webp
    [] f = "Avif" -> s_avif
    [] f = "Pnm" -> s_pnm
    [] f = "Tga" -> s_tga
    [] f = "Dds" -> s_dds
    [] f = "Hdr" -> s_hdr
    [] f = "Farbfeld" -> s_ff

\* the match of extension_to_format, on the lower-cased extension
ext_table(e) ==
  CASE e = s_png -> Some("PNG")
    [] e \in {s_jpg, s_jpeg} -> Some("JPEG")
    [] e = s_gif -> Some("GIF")
    [] e = s_bmp -> Some("BMP")
    [] e = s_ico -> Some("ICO")
    [] e \in {s_tiff, s_tif} -> Some("TIFF")
    [] e = s_webp -> Some("WEBP")
    [] e = s_avif -> Some("AVIF")
    [] e \in {s_pnm, s_pbm, s_pgm, s_ppm} -> Some("PNM")
    [] e = s_tga -> Some("TGA")
    [] e = s_dds -> Some("DDS")
    [] e = s_hdr -> Some("HDR")
    [] e = s_ff -> Some("FARBFELD")
    [] OTHER -> None

\* extension_to_format
extension_to_format(ext) == ext_table(to_lowercase(ext))

\* format_to_main_extension: the canonical extension of an ImageFormat
format_to_main_extension(fmt) ==
  CASE fmt = "PNG" -> s_png
    [] fmt = "JPEG" -> s_jpg
    [] fmt = "GIF" -> s_gif
    [] fmt = "BMP" -> s_bmp
    [] fmt = "ICO" -> s_ico
    [] fmt = "TIFF" -> s_tiff
    [] fmt = "WEBP" -> s_webp
    [] fmt = "AVIF" -> s_avif
    [] fmt = "PNM" -> s_pnm
    [] fmt = "TGA" -> s_tga
    [] fmt = "DDS" -> s_dds
    [] fmt = "HDR" -> s_hdr
    [] fmt = "FARBFELD" -> s_ff
    [] OTHER -> s_png

\* the match of detect_format_from_path, on the lower-cased extension
path_table_m(e) ==
  CASE e = s_png -> Some("PNG")
    [] e \in {s_jpg, s_jpeg} -> Some("JPEG")
    [] e = s_gif -> Some("GIF")
    [] e = s_bmp -> Some("BMP")
    [] e = s_ico -> Some("ICO")
    [] e \in {s_tiff, s_tif} -> Some("TIFF")
    [] e = s_webp -> Some("WEBP")
    [] e = s_avif -> Some("AVIF")
    [] e \in {s_pnm, s_pbm, s_pgm} -> Some("PNM")
    [] e = s_tga -> Some("TGA")
    [] e = s_dds -> Some("DDS")
    [] e = s_hdr -> Some("HDR")
    [] e = s_ff -> Some("FARBFELD")
    [] OTHER -> None

path_table(e) ==
  CASE e = s_png -> Some("PNG")
    [] e \in {s_jpg, s_jpeg} -> Some("JPEG")
    [] e = s_gif -> Some("GIF")
    [] e = s_bmp -> Some("BMP")
    [] e = s_ico -> Some("ICO")
    [] e \in {s_tiff, s_tif} -> Some("TIFF")
    [] e = s_webp -> Some("WEBP")
    [] e = s_avif -> Some("AVIF")
    [] e \in {s_pnm, s_pbm, s_pgm, s_ppm} -> Some("PNM")
    [] e = s_tga -> Some("TGA")
    [] e = s_dds -> Some("DDS")
    [] e = s_hdr -> Some("HDR")
    [] e = s_ff -> Some("FARBFELD")
    [] OTHER -> None

detect_format_from_path_m(path) ==
  IF ~extension_of(path).some THEN None
  ELSE path_table(extension_of(path).v)

\* detect_format_from_path: nothing for a path without extension
detect_format_from_path(path) ==
  IF ~extension_of(path).some THEN None
  ELSE path_table(to_lowercase(extension_of(path).v))

\* ------------------------------------------------------------------------
\* str::replace(from, to): every non-overlapping occurrence, left to right
\* ------------------------------------------------------------------------
RECURSIVE replace(_, _, _)
replace(s, from, to) ==
  IF Len(s) < Len(from) \/ from = <<>> THEN s
  ELSE IF SubSeq(s, 1, Len(from)) = from
         THEN to \o replace(SubSeq(s, Len(from) + 1, Len(s)), from, to)
         ELSE <<s[1]>> \o replace(SubSeq(s, 2, Len(s)), from, to)

\* ------------------------------------------------------------------------
\* The format resolver
\* ------------------------------------------------------------------------
Ok(path, fmt) == [ok |-> TRUE, path |-> path, format |-> fmt]
Err(e) == [ok |-> FALSE, err |-> e]

extension_matches_m(ext_lower, format_ext) == TRUE

\* the test of add_extension_if_needed that keeps the path as it is
extension_matches(ext_lower, format_ext) ==
  ext_lower = format_ext \/ ext_lower = replace(format_ext, s_jpeg, s_jpg)

\* add_extension_if_needed
add_extension_if_needed(path, format) ==
  IF extension_of(path).some
     /\ extension_matches(to_lowercase(extension_of(path).v),
                          format_to_extension(format))
    THEN path
    ELSE set_extension(path, format_to_extension(format))

\* determine_output: file-input mode
determine_output(output, format) ==
  IF format.some
    THEN Ok(add_extension_if_needed(output, format.v), to_image_format(format.v))
    ELSE IF detect_format_from_path(output).some
           THEN Ok(output, detect_format_from_path(output).v)
           ELSE Err("cannot_determine_output_format")

\* the test of determine_output_from_clipboard that corrects the extension
extension_mismatch(ext_str, detected_ext) ==
  ext_str # detected_ext /\ ext_str # s_jpg /\ detected_ext # s_jpeg

\* the -e branch of determine_output_from_clipboard
clipboard_by_extension(output, ext) ==
  IF ~extension_to_format(ext).some THEN Err("unknown_extension")
  ELSE IF extension_of(output).some
          /\ to_lowercase(extension_of(output).v) = to_lowercase(ext)
         THEN Ok(output, extension_to_format(ext).v)
         ELSE Ok(set_extension(output, ext), extension_to_format(ext).v)

\* the last lines of determine_output_from_clipboard: detected format or PNG
clipboard_fallback(output, detected_format) ==
  LET final_format == IF detected_format.some THEN detected_format.v ELSE "PNG"
  IN Ok(set_extension(output, format_to_main_extension(final_format)),
        final_format)

determine_output_from_clipboard_m(output, explicit_format, extension, detected_format) ==
  IF explicit_format.some
    THEN Ok(add_extension_if_needed(output, explicit_format.v),
            to_image_format(explicit_format.v))
  ELSE IF extension.some THEN clipboard_by_extension(output, extension.v)
  ELSE IF extension_of(output).some
          /\ detected_format.some
          /\ extension_mismatch(to_lowercase(extension_of(output).v),
                                format_to_main_extension(detected_format.v))
    THEN Ok(set_extension(output, format_to_main_extension(detected_format.v)),
            detected_format.v)
  ELSE IF extension_of(output).some /\ detect_format_from_path(output).some
    THEN Ok(output, detect_format_from_path(output).v)
  ELSE clipboard_fallback(output, detected_format)

\* determine_output_from_clipboard: clipboard mode
determine_output_from_clipboard(output, explicit_format, extension, detected_format) ==
  IF extension.some THEN clipboard_by_extension(output, extension.v)
  ELSE IF explicit_format.some
    THEN Ok(add_extension_if_needed(output, explicit_format.v),
            to_image_format(explicit_format.v))
  ELSE IF extension_of(output).some
          /\ detected_format.some
          /\ extension_mismatch(to_lowercase(extension_of(output).v),
                                format_to_main_extension(detected_format.v))
    THEN Ok(set_extension(output, format_to_main_extension(detected_format.v)),
            detected_format.v)
  ELSE IF extension_of(output).some /\ detect_format_from_path(output).some
    THEN Ok(output, detect_format_from_path(output).v)
  ELSE clipboard_fallback(output, detected_format)

\* ------------------------------------------------------------------------
\* Inputs: command lines the program can be started with
\* ------------------------------------------------------------------------
Str(stem, ext) == stem \o <<".">> \o ext

\* output paths: with a matching, an alias, an upper-case, an unknown, an
\* empty and no extension, in a directory, hidden, and without a file name
Paths ==
  {Str(<<"s">>, s_jpg), Str(<<"s">>, s_png), Str(<<"s">>, s_jpeg),
   Str(<<"p">>, <<"J", "P", "G">>), <<"p">>, Str(<<"i">>, s_bmp),
   Str(<<"i">>, s_tif), Str(<<"o">>, <<"t", "x", "t">>),
   <<"d", "/", "e", "/", ".", ".">>, <<".", "h">>, <<"s", ".">>, Str(<<"d", "/", "s">>, s_gif),
   Str(<<"a", ".", "b">>, s_ppm)}

\* values of --extension
Extensions ==
  {s_jpg, <<"J", "P", "G">>, s_tif, s_png, <<"x", "y", "z">>}

\* values of --quality (a u8)
Qualities == {0, 1, 90, 100, 101, 255}

\* formats the image library can sniff and decode an input file from
SniffedFormats == {"PNG", "JPEG", "QOI"}

InputFile == <<"i", "n">>

\* ------------------------------------------------------------------------
\* State
\* ------------------------------------------------------------------------
VARIABLES
  clipboard,              \* args.clipboard
  input,                  \* args.input.or(args.pos_input)
  output,                 \* args.output.or(args.pos_output)
  format,                 \* args.format
  extension,              \* args.extension
  quality,                \* args.quality
  pc,                     \* the position of main
  detected_input_format,  \* Option<ImageFormat> of the source
  resolved,               \* Option of the resolver's result
  steps,                  \* the steps executed so far, each with its outcome
  io,                     \* the file-system and clipboard calls made so far
  encoder,                \* Option of the encoder call made
  exit_code,              \* Option of the exit status
  probe                   \* Option of the result of a table look-up

vars ==
  <<clipboard, input, output, format, extension, quality, pc,
    detected_input_format, resolved, steps, io, encoder, exit_code, probe>>

args == <<clipboard, input, output, format, extension, quality>>

Opt(S) == {None} \cup {Some(x) : x \in S}

Step(name, ok) == [name |-> name, ok |-> ok]

\* ------------------------------------------------------------------------
\* main
\* ------------------------------------------------------------------------
quality_out_of_range_m(q) == q = 0

\* main: the quality check
quality_out_of_range(q) == q = 0 \/ q > 100

propagate_m(ok, next) == next

\* the ? operator and bail!: an error ends main, a value lets it go on
propagate(ok, next) == IF ok THEN next ELSE "failed"

\* what every step does to the position, the step log and the exit status
Finish(name, ok, next) ==
  /\ steps' = Append(steps, Step(name, ok))
  /\ pc' = propagate(ok, next)
  /\ exit_code' = IF propagate(ok, next) = "failed" THEN Some(1)
                  ELSE IF next = "done" THEN Some(0) ELSE exit_code

Init ==
  /\ clipboard \in BOOLEAN
  /\ input \in (IF clipboard THEN {None} ELSE Opt({InputFile}))
  /\ output \in Opt(Paths)
  /\ format \in Opt(Format)
  /\ extension \in Opt(Extensions)
  /\ quality \in Qualities
  /\ pc = "validate_quality"
  /\ detected_input_format = None
  /\ resolved = None
  /\ steps = <<>>
  /\ io = <<>>
  /\ encoder = None
  /\ exit_code = None
  /\ probe = None

\* main: "Validate quality"
ValidateQuality ==
  /\ pc = "validate_quality"
  /\ Finish("validate_quality", ~quality_out_of_range(quality), "acquire")
  /\ UNCHANGED <<args, detected_input_format, resolved, io, encoder, probe>>

\* get_image_from_clipboard: the source format is always PNG
GetImageFromClipboard ==
  /\ pc = "acquire"
  /\ clipboard
  /\ \E outcome \in {"no_clipboard", "no_image", "bad_data", "ok"} :
       /\ io' = io \o (IF outcome = "no_clipboard" THEN <<"clipboard_new">>
                       ELSE <<"clipboard_new", "clipboard_get_image">>)
       /\ detected_input_format' =
            IF outcome = "ok" THEN Some("PNG") ELSE detected_input_format
       /\ Finish("acquire", outcome = "ok", "require_output")
  /\ UNCHANGED <<args, resolved, encoder, probe>>

\* main: "Get from file"
ReadInputFile ==
  /\ pc = "acquire"
  /\ ~clipboard
  /\ IF ~input.some
       THEN /\ Finish("acquire", FALSE, "require_output")
            /\ UNCHANGED <<io, detected_input_format>>
       ELSE \E outcome \in {"not_found", "open_failed", "guess_failed",
                            "decode_failed", "ok"},
               sniffed \in SniffedFormats :
              /\ io' = io \o
                   (CASE outcome = "not_found" -> <<"input_exists">>
                      [] outcome = "open_failed" ->
                           <<"input_exists", "input_open">>
                      [] outcome = "guess_failed" ->
                           <<"input_exists", "input_open", "guess_format">>
                      [] OTHER ->
                           <<"input_exists", "input_open", "guess_format",
                             "decode">>)
              /\ detected_input_format' =
                   IF outcome = "ok" THEN Some(sniffed)
                   ELSE detected_input_format
              /\ Finish("acquire", outcome = "ok", "require_output")
  /\ UNCHANGED <<args, resolved, encoder, probe>>

\* main: "Determine output path"
RequireOutput ==
  /\ pc = "require_output"
  /\ Finish("require_output", output.some, "resolve")
  /\ UNCHANGED <<args, detected_input_format, resolved, io, encoder, probe>>

\* the resolver main calls for the mode
resolve(clip, out, fmt, ext, detected) ==
  IF clip THEN determine_output_from_clipboard(out, fmt, ext, detected)
  ELSE determine_output(out, fmt)

\* main: "Determine output format with smart logic for clipboard mode"
Resolve ==
  /\ pc = "resolve"
  /\ LET r == resolve(clipboard, output.v, format, extension,
                      detected_input_format)
     IN /\ resolved' = Some(r)
        /\ Finish("resolve", r.ok, "create_parent_dir")
  /\ UNCHANGED <<args, detected_input_format, io, encoder, probe>>

\* main: "Create parent directory if it doesn't exist"; the empty parent of
\* a bare file name never exists, and create_dir_all("") succeeds
CreateParentDir ==
  /\ pc = "create_parent_dir"
  /\ LET dir == parent(resolved.v.path)
     IN IF ~dir.some
          THEN /\ io' = io
               /\ Finish("create_parent_dir", TRUE, "encode")
          ELSE \E exists \in (IF dir.v = <<>> THEN {FALSE} ELSE BOOLEAN),
                  created \in (IF dir.v = <<>> THEN {TRUE} ELSE BOOLEAN) :
                 /\ io' = io \o (IF exists THEN <<"parent_exists">>
                                 ELSE <<"parent_exists", "create_dir_all">>)
                 /\ Finish("create_parent_dir", exists \/ created, "encode")
  /\ UNCHANGED <<args, detected_input_format, resolved, encoder, probe>>

encoder_for_m(fmt, q) ==
  IF fmt \in {"JPEG", "WEBP"}
    THEN [codec |-> "JpegEncoder::new_with_quality", quality |-> Some(q)]
    ELSE [codec |-> "save_with_format", quality |-> None]

\* main: "Save with appropriate encoder", the encoder and what it is given
encoder_for(fmt, q) ==
  IF fmt = "JPEG"
    THEN [codec |-> "JpegEncoder::new_with_quality", quality |-> Some(q)]
    ELSE [codec |-> "save_with_format", quality |-> None]

\* main: "Save with appropriate encoder"
Encode ==
  /\ pc = "encode"
  /\ IF resolved.v.format = "JPEG"
       THEN \E outcome \in {"create_failed", "encode_failed", "ok"} :
              /\ io' = io \o (IF outcome = "create_failed"
                                THEN <<"file_create">>
                                ELSE <<"file_create", "encode_image">>)
              /\ encoder' = IF outcome = "create_failed" THEN encoder
                            ELSE Some(encoder_for(resolved.v.format, quality))
              /\ Finish("encode", outcome = "ok", "report")
       ELSE \E outcome \in {"save_failed", "ok"} :
              /\ io' = io \o <<"save_with_format">>
              /\ encoder' = Some(encoder_for(resolved.v.format, quality))
              /\ Finish("encode", outcome = "ok", "report")
  /\ UNCHANGED <<args, detected_input_format, resolved, probe>>

\* main: "Get file size" (a failure is ignored) and the success report
Report ==
  /\ pc = "report"
  /\ io' = io \o <<"metadata">>
  /\ Finish("report", TRUE, "done")
  /\ UNCHANGED <<args, detected_input_format, resolved, encoder, probe>>

Next ==
  \/ ValidateQuality
  \/ GetImageFromClipboard
  \/ ReadInputFile
  \/ RequireOutput
  \/ Resolve
  \/ CreateParentDir
  \/ Encode
  \/ Report

Spec == Init /\ [][Next]_vars

\* ------------------------------------------------------------------------
\* The resolver on its own: every combination of hints, every source format
\* ------------------------------------------------------------------------
InitResolver ==
  /\ clipboard \in BOOLEAN
  /\ input = None
  /\ output \in {Some(x) : x \in Paths}
  /\ format \in Opt(Format)
  /\ extension \in Opt(Extensions)
  /\ quality = 90
  /\ pc = "resolve"
  /\ detected_input_format \in Opt(ImageFormat)
  /\ resolved = None
  /\ steps = <<>>
  /\ io = <<>>
  /\ encoder = None
  /\ exit_code = None
  /\ probe = None

NextResolver == Resolve

SpecResolver == InitResolver /\ [][NextResolver]_vars

\* ------------------------------------------------------------------------
\* The extension tables on their own
\* ------------------------------------------------------------------------
\* extensions to look up: every alias, upper- and mixed-case spellings,
\* near misses and the empty extension
TableExtensions ==
  {s_png, s_jpg, s_jpeg, s_gif, s_bmp, s_ico, s_tiff, s_tif, s_webp, s_avif,
   s_pnm, s_pbm, s_pgm, s_ppm, s_tga, s_dds, s_hdr, s_ff,
   <<"P", "N", "G">>, <<"J", "p", "e", "G">>, <<"T", "I", "F">>,
   <<"P", "P", "M">>, <<"F", "f">>, <<"t", "x", "t">>, <<"j", "p", "e">>,
   <<"p", "n", "g", "s">>, <<"f">>, <<>>}

TablePaths ==
  {Str(<<"t">>, e) : e \in TableExtensions}
    \cup {<<"t">>, <<".", "p", "n", "g">>, <<".", ".">>,
          Str(<<"p", "n", "g", "/", "t">>, <<"x">>)}

InitTables ==
  /\ clipboard = FALSE
  /\ input = None
  /\ output \in {Some(x) : x \in TablePaths}
  /\ format \in {Some(f) : f \in Format}
  /\ extension = None
  /\ quality = 90
  /\ pc = "tables"
  /\ detected_input_format \in {Some(f) : f \in ImageFormat}
  /\ resolved = None
  /\ steps = <<>>
  /\ io = <<>>
  /\ encoder = None
  /\ exit_code = None
  /\ probe = None

\* a Format to its canonical extension, and the extension back to a codec
RoundTrip ==
  /\ pc = "tables"
  /\ probe = None
  /\ LET ext == format_to_extension(format.v)
     IN probe' = Some([op |-> "round_trip",
                       ext |-> ext,
                       codec |-> to_image_format(format.v),
                       by_ext |-> extension_to_format(ext),
                       by_path |-> detect_format_from_path(Str(<<"t">>, ext))])
  /\ UNCHANGED <<args, pc, detected_input_format, resolved, steps, io,
                 encoder, exit_code>>

\* an ImageFormat to its canonical extension, and the extension looked up
MainExtension ==
  /\ pc = "tables"
  /\ probe = None
  /\ LET ext == format_to_main_extension(detected_input_format.v)
     IN probe' = Some([op |-> "main_extension",
                       ext |-> ext,
                       codec |-> detected_input_format.v,
                       by_ext |-> extension_to_format(ext),
                       by_path |-> detect_format_from_path(Str(<<"t">>, ext))])
  /\ UNCHANGED <<args, pc, detected_input_format, resolved, steps, io,
                 encoder, exit_code>>

\* the extension of a path looked up in both tables
LookUp ==
  /\ pc = "tables"
  /\ probe = None
  /\ extension_of(output.v).some
  /\ probe' = Some([op |-> "look_up",
                    ext |-> extension_of(output.v).v,
                    by_ext |-> extension_to_format(extension_of(output.v).v),
                    by_path |-> detect_format_from_path(output.v)])
  /\ UNCHANGED <<args, pc, detected_input_format, resolved, steps, io,
                 encoder, exit_code>>

\* a path without extension looked up
LookUpBare ==
  /\ pc = "tables"
  /\ probe = None
  /\ ~extension_of(output.v).some
  /\ probe' = Some([op |-> "look_up_bare",
                    by_path |-> detect_format_from_path(output.v)])
  /\ UNCHANGED <<args, pc, detected_input_format, resolved, steps, io,
                 encoder, exit_code>>

NextTables ==
  \/ RoundTrip
  \/ MainExtension
  \/ LookUp
  \/ LookUpBare

SpecTables == InitTables /\ [][NextTables]_vars

\* ------------------------------------------------------------------------
\* Properties
\* ------------------------------------------------------------------------
\* the alias set: every extension the spec lists as accepted
AliasSet ==
  {s_png, s_jpg, s_jpeg, s_gif, s_bmp, s_ico, s_tiff, s_tif, s_webp, s_avif,
   s_pnm, s_pbm, s_pgm, s_ppm, s_tga, s_dds, s_hdr, s_ff}

\* the canonical extensions the spec lists
CanonicalSet ==
  {s_png, s_jpg, s_gif, s_bmp, s_ico, s_tiff, s_webp, s_avif, s_pnm, s_tga,
   s_dds, s_hdr, s_ff}

\* "jpg" and "jpeg" treated as equal
JpgJpeg(e) == IF e = s_jpeg THEN s_jpg ELSE e

\* the resolver has returned
Resolved == resolved.some
Succeeded == resolved.some /\ resolved.v.ok

\* lower-cased extension of the output path given / of the path returned
OutExt == to_lowercase(extension_of(output.v).v)
ResExt == to_lowercase(extension_of(resolved.v.path).v)

\* C1: clipboard mode, no -e, no -f, an output path with an extension and a
\* detected source format: when the lower-cased extension disagrees with the
\* detected format's canonical extension (jpg and jpeg being equal), the
\* resolver returns the path with the detected canonical extension and the
\* detected format.
C1_MismatchIsCorrected ==
  (/\ Resolved /\ clipboard /\ ~extension.some /\ ~format.some
   /\ extension_of(output.v).some
   /\ detected_input_format.some
   /\ JpgJpeg(OutExt) #
        JpgJpeg(format_to_main_extension(detected_input_format.v)))
    => resolved.v =
         Ok(set_extension(output.v,
                          format_to_main_extension(detected_input_format.v)),
            detected_input_format.v)

\* the extensions the alias set accepts for the codec of a Format
AliasesOf(f) == {e \in AliasSet : ext_table(e) = Some(to_image_format(f))}

\* an explicit format decides: file mode, or clipboard mode without -e
ByExplicitFormat ==
  Resolved /\ format.some /\ (~clipboard \/ ~extension.some)

\* C2: with an explicit format the resolver returns that format, and changes
\* the path only when its extension, lower-cased, is neither the canonical
\* extension nor an alias of the format: then the canonical extension is
\* appended or put in place of the old one.
C2_ExplicitFormatKeepsAliases ==
  ByExplicitFormat =>
    /\ resolved.v.ok
    /\ resolved.v.format = to_image_format(format.v)
    /\ resolved.v.path =
         IF extension_of(output.v).some /\ OutExt \in AliasesOf(format.v)
           THEN output.v
           ELSE set_extension(output.v, format_to_extension(format.v))

\* C3: after every successful resolution the extension of the returned path
\* is the canonical extension of the returned format, "jpeg" being accepted
\* for "jpg".
C3_ExtensionIsCanonical ==
  Succeeded =>
    /\ extension_of(resolved.v.path).some
    /\ format_to_main_extension(resolved.v.format) \in CanonicalSet
    /\ JpgJpeg(ResExt) = format_to_main_extension(resolved.v.format)

\* C3, amended: after every successful resolution a returned path that has a
\* file name carries an extension that, lower-cased, is the canonical
\* extension or an accepted alias of the returned format; a path without a
\* file name is returned as it was given.
C3_ExtensionIsAlias ==
  Succeeded =>
    IF file_name(resolved.v.path).some
      THEN /\ extension_of(resolved.v.path).some
           /\ ResExt \in AliasSet
           /\ ext_table(ResExt) = Some(resolved.v.format)
      ELSE resolved.v.path = output.v

\* a resolution that kept an alias extension which is not the canonical one
C3_Witness ==
  /\ Succeeded
  /\ file_name(resolved.v.path).some
  /\ extension_of(resolved.v.path).some
  /\ ResExt = s_tif
  /\ resolved.v.format = "TIFF"

\* what C4 says of a path that can carry an extension
C4_PathHasRequestedExtension ==
  /\ extension_of(resolved.v.path).some
  /\ ResExt = to_lowercase(extension.v)
  /\ file_stem(resolved.v.path) = file_stem(output.v)
  /\ parent(resolved.v.path) = parent(output.v)
  /\ IF extension_of(output.v).some /\ OutExt = to_lowercase(extension.v)
       THEN resolved.v.path = output.v
       ELSE extension_of(resolved.v.path).v = extension.v

\* C4: in clipboard mode with -e the result is decided by the extension and
\* the output path alone: a mapped extension gives its format and a path
\* with the requested extension (replaced, appended or left as it is), an
\* unmapped one the unknown-extension error.
C4_ExtensionDecides ==
  (Resolved /\ clipboard /\ extension.some) =>
    IF to_lowercase(extension.v) \in AliasSet
      THEN /\ resolved.v.ok
           /\ resolved.v.format = ext_table(to_lowercase(extension.v)).v
           /\ C4_PathHasRequestedExtension
      ELSE resolved.v = Err("unknown_extension")

\* C4, amended: as C4 for an output path that has a file name; an output
\* path without a file name is returned as it was given, with the format of
\* the extension.
C4_ExtensionDecidesNamed ==
  (Resolved /\ clipboard /\ extension.some) =>
    IF to_lowercase(extension.v) \in AliasSet
      THEN /\ resolved.v.ok
           /\ resolved.v.format = ext_table(to_lowercase(extension.v)).v
           /\ IF file_name(output.v).some
                THEN C4_PathHasRequestedExtension
                ELSE resolved.v.path = output.v
      ELSE resolved.v = Err("unknown_extension")

\* -e jpg on "s.png" with a detected PNG and an explicit format: "s.jpg", JPEG
C4_Witness ==
  /\ Resolved /\ clipboard
  /\ extension = Some(s_jpg)
  /\ format = Some("Gif")
  /\ detected_input_format = Some("PNG")
  /\ output = Some(Str(<<"s">>, s_png))
  /\ resolved.v = Ok(Str(<<"s">>, s_jpg), "JPEG")

\* C5: file mode without explicit format succeeds exactly when the output
\* path's extension, lower-cased, is in the alias set; it then returns the
\* path unchanged with the format of the alias, and otherwise fails with the
\* cannot-determine-output-format error.
C5_FileModeByExtension ==
  (Resolved /\ ~clipboard /\ ~format.some) =>
    IF extension_of(output.v).some /\ OutExt \in AliasSet
      THEN resolved.v = Ok(output.v, ext_table(OutExt).v)
      ELSE resolved.v = Err("cannot_determine_output_format")

\* "i.bmp" resolved to BMP in file mode
C5_Witness ==
  /\ Resolved /\ ~clipboard /\ ~format.some
  /\ output = Some(Str(<<"i">>, s_bmp))
  /\ resolved.v = Ok(Str(<<"i">>, s_bmp), "BMP")

\* C6: a quality outside 1..100 ends the run before any file-system or
\* clipboard call: nothing is ever read, created or written in such a run.
C6_QualityBeforeIO ==
  (quality \notin 1..100) =>
    /\ io = <<>>
    /\ pc \in {"validate_quality", "failed"}
    /\ ~detected_input_format.some /\ ~resolved.some /\ ~encoder.some
    /\ (pc = "failed" => exit_code = Some(1) /\ Len(steps) = 1)

\* a clipboard run with quality 101 that has failed
C6_Witness ==
  /\ quality = 101 /\ clipboard /\ output.some
  /\ pc = "failed" /\ io = <<>>

\* C7: a Format's canonical extension maps back to the Format's codec; the
\* canonical extension of Jpeg and Jpg is "jpg", and "jpeg" maps to JPEG.
C7_RoundTrip ==
  /\ (probe.some /\ probe.v.op = "round_trip") =>
       /\ probe.v.by_ext = Some(probe.v.codec)
       /\ probe.v.ext \in CanonicalSet
       /\ (format.v \in {"Jpeg", "Jpg"} => probe.v.ext = s_jpg)
  /\ (probe.some /\ probe.v.op = "look_up"
        /\ to_lowercase(probe.v.ext) = s_jpeg) =>
       probe.v.by_ext = Some("JPEG")

\* Farbfeld taken to "ff" and back
C7_Witness ==
  /\ probe.some /\ probe.v.op = "round_trip"
  /\ format = Some("Farbfeld")
  /\ probe.v.ext = s_ff
  /\ probe.v.by_ext = Some("FARBFELD")

\* the encode step has been reached and the encoder called
Encoded == encoder.some

\* C8: the encoder is given the quality exactly when the resolved format is
\* JPEG, and then the validated value; every other format is saved with the
\* library defaults, whatever the quality; an in-range quality never fails
\* the run at the quality check.
C8_QualityOnlyForJpeg ==
  /\ Encoded =>
       /\ quality \in 1..100
       /\ (resolved.v.format = "JPEG" <=> encoder.v.quality.some)
       /\ (resolved.v.format = "JPEG" =>
             encoder.v = [codec |-> "JpegEncoder::new_with_quality",
                          quality |-> Some(quality)])
       /\ (resolved.v.format # "JPEG" =>
             encoder.v = [codec |-> "save_with_format", quality |-> None])
  /\ (quality \in 1..100 /\ steps # <<>>) => steps[1].ok
  /\ (pc \in {"report", "done"}) => Encoded

\* a finished WebP conversion with quality 1, saved with the defaults
C8_Witness ==
  /\ pc = "done" /\ quality = 1
  /\ resolved.v.format = "WEBP"
  /\ encoder.v.quality = None

\* the order of the steps of the driver
StepOrder ==
  <<"validate_quality", "acquire", "require_output", "resolve",
    "create_parent_dir", "encode", "report">>

\* the calls that create the directory or write the output file
WriteCalls == {"create_dir_all", "file_create", "encode_image", "save_with_format"}

\* C9: the steps run in the fixed order; the first failing step ends the run
\* with a non-zero exit and nothing runs after it; directory and file are
\* created only after the source was obtained and the resolver succeeded;
\* the success report comes only after a successful encode.
C9_FailFastInOrder ==
  /\ Len(steps) <= Len(StepOrder)
  /\ \A i \in 1..Len(steps) : steps[i].name = StepOrder[i]
  /\ \A i \in 1..(Len(steps) - 1) : steps[i].ok
  /\ (pc = "failed") <=> (steps # <<>> /\ ~steps[Len(steps)].ok)
  /\ (pc = "failed") <=> (exit_code = Some(1))
  /\ (pc = "done") <=> (exit_code = Some(0))
  /\ (pc = "done") => Len(steps) = Len(StepOrder)
  /\ (pc \notin {"failed", "done"}) => pc = StepOrder[Len(steps) + 1]
  /\ (\E i \in 1..Len(io) : io[i] \in WriteCalls) =>
       /\ detected_input_format.some
       /\ Succeeded
       /\ Len(steps) >= 4
  /\ (Len(steps) = Len(StepOrder)) => steps[6].ok /\ Encoded

\* a run that failed in the resolver: nothing created, nothing written
C9_Witness ==
  /\ pc = "failed"
  /\ Len(steps) = 4
  /\ resolved.some /\ ~resolved.v.ok
  /\ io # <<>>
  /\ \A i \in 1..Len(io) : io[i] \notin WriteCalls

\* C10: the two tables agree on every extension, in any letter case: both
\* give the same codec on the alias set and nothing elsewhere; and every
\* extension format_to_extension or format_to_main_extension produces is
\* known to both.
C10_TablesAgree ==
  /\ (probe.some /\ probe.v.op = "look_up") =>
       /\ probe.v.by_path = probe.v.by_ext
       /\ probe.v.by_path.some <=> to_lowercase(probe.v.ext) \in AliasSet
  /\ (probe.some /\ probe.v.op \in {"round_trip", "main_extension"}) =>
       /\ probe.v.by_ext.some
       /\ probe.v.by_path.some
       /\ probe.v.by_path = probe.v.by_ext

\* "t.PPM" found to be PNM by both tables
C10_Witness ==
  /\ probe.some /\ probe.v.op = "look_up"
  /\ probe.v.ext = <<"P", "P", "M">>
  /\ probe.v.by_path = Some("PNM")
  /\ probe.v.by_ext = Some("PNM")

====
